---------------------------- MODULE Spec2Model ----------------------------
(***************************************************************************)
(* The beat-synced reel builder of src/edited/editing.py: one call of      *)
(* beat_synced_reel(audio_path, videos_folder, output_path), its primary   *)
(* tier (beat_synced_reel_moviepy), its secondary tier                     *)
(* (simple_video_concat) and the placeholder (create_placeholder_video).   *)
(*                                                                         *)
(* Time is counted in half seconds: 2.0 s is 4 units, the 0.5 s buffer is  *)
(* 1 unit, the 60 s cap of get_audio_duration is 120 units.  A value drawn *)
(* by random.uniform(0, max_start) is a whole number of units in           *)
(* 0..max_start.                                                           *)
(***************************************************************************)
EXTENDS Integers, Sequences, FiniteSets, TLC

(* ------------------------------ bounds -------------------------------- *)

\* Most video files in the clip folder.
MaxClips == 2
\* Longest source clip, in half seconds.
MaxClipDur == 6
\* Longest ordinary audio track, in half seconds.
MaxAudio == 5
\* Most beats librosa reports.
MaxBeats == 2
\* Largest width or height of a video file, in pixels.
MaxDim == 3840

(* ------------------------- program constants -------------------------- *)

\* min(2.0, ...): the nominal segment length, 2.0 s.
TwoSeconds == 4
\* "- 0.5": the buffer left at the end of a clip, 0.5 s.
HalfSecond == 1
\* min(duration, 60): the Instagram cap of get_audio_duration, 60 s.
AudioCap == 120
\* return 30.0: what get_audio_duration answers when ffprobe fails.
ProbeDefault == 60
\* total_audio_duration = 10.0 when librosa.get_duration raises.
DefaultDuration == 20
\* 1080 of "1080 / 1920", resize(width=1080), crop(width=1080).
TargetW == 1080
\* 1920 of "1080 / 1920", resize(height=1920), crop(height=1920).
TargetH == 1920

Min(a, b) == IF a <= b THEN a ELSE b
Max(a, b) == IF a >= b THEN a ELSE b

\* The lengths an ordinary audio track is drawn from.
AudioLens == 0 .. MaxAudio
\* The planner appends at most this many segments before the model stops
\* following it (a clip of duration 0 makes the loops run for ever).
MaxSegments == MaxAudio + 2

\* All sequences over S of length at most n.
SeqsUpTo(S, n) == UNION {[1 .. k -> S] : k \in 0 .. n}

\* The durations a source clip is drawn from: an empty clip, a clip
\* shorter than a segment, a clip as long as a segment, and a long clip.
ClipDurations == {0, HalfSecond, TwoSeconds, MaxClipDur}

\* The folders: the durations of the video files, in filename order.
Folders == SeqsUpTo(ClipDurations, MaxClips)

\* The beat grids librosa can report for an audio of length len: strictly
\* increasing beat times, at most MaxBeats of them, found in the first
\* MaxAudio half seconds of the track.
BeatGrids(len) ==
  {b \in SeqsUpTo(0 .. Min(len, MaxAudio), MaxBeats) :
     \A i \in 1 .. Len(b) - 1 : b[i] < b[i + 1]}

transition_styles ==
  {"fade", "quick_fade", "zoom_in", "zoom_out", "crossfade", "spin_right",
   "spin_left", "scale_bounce", "smooth_fade", "dramatic_fade", "zoom_blur",
   "gentle_zoom"}

\* What the fx calls do to a segment.  Seconds, scale factors and degrees
\* are counted in hundredths: fadein 0.2 is 20.  fx "resize" scales by
\* base + rate * t, "resize_abs" by base + rate * abs(t - shift), "rotate"
\* turns by rate * t degrees.
Fx(fadein, fadeout, fx, base, rate, shift) ==
  [fadein |-> fadein, fadeout |-> fadeout, fx |-> fx, base |-> base,
   rate |-> rate, shift |-> shift]

\* A segment no fx was applied to.
NoEffect == Fx(0, 0, "none", 0, 0, 0)

\* trimmed.fx(vfx.fadein, 0.2).fx(vfx.fadeout, 0.2) of the fixed-timing
\* loop.
SimpleFade == Fx(20, 20, "none", 0, 0, 0)

\* The chain "if transition == 'fade': ... elif ...", in its order: the
\* string each branch compares with and the fx calls of its body.
dispatch ==
  << [id |-> "fade", fx |-> Fx(20, 20, "none", 0, 0, 0)],
     [id |-> "quick_fade", fx |-> Fx(5, 5, "none", 0, 0, 0)],
     [id |-> "zoom_in", fx |-> Fx(10, 10, "resize", 100, 20, 0)],
     [id |-> "zoom_out", fx |-> Fx(10, 10, "resize", 120, -20, 0)],
     [id |-> "crossfade", fx |-> Fx(40, 40, "none", 0, 0, 0)],
     [id |-> "spin_right", fx |-> Fx(10, 10, "rotate", 0, 300, 0)],
     [id |-> "spin_left", fx |-> Fx(10, 10, "rotate", 0, -300, 0)],
     [id |-> "scale_bounce", fx |-> Fx(10, 10, "resize_abs", 100, 10, 50)],
     [id |-> "smooth_fade", fx |-> Fx(30, 30, "none", 0, 0, 0)],
     [id |-> "dramatic_fade", fx |-> Fx(10, 50, "none", 0, 0, 0)],
     [id |-> "zoom_blur", fx |-> Fx(20, 20, "resize", 100, 15, 0)],
     [id |-> "gentle_zoom", fx |-> Fx(15, 15, "resize", 100, 5, 0)] >>

\* The branches of the chain whose comparison is true for a style.
Matching(style) == {i \in DOMAIN dispatch : dispatch[i].id = style}

\* Mutant: every style is given the fx calls of 'fade'.
ApplyTransition_AlwaysFade(style) == SimpleFade

\* The chain run on a style: the body of the first branch that matches,
\* and the segment as it is when none does.
ApplyTransition(style) ==
  IF Matching(style) = {}
    THEN NoEffect
    ELSE dispatch[CHOOSE i \in Matching(style) :
                    \A j \in Matching(style) : i <= j].fx

RECURSIVE SumDurations(_)
\* The duration of concatenate_videoclips(final_clips).
SumDurations(s) ==
  IF s = <<>> THEN 0 ELSE s[1].duration + SumDurations(Tail(s))

(* ------------------------------- state -------------------------------- *)

VARIABLES
  MOVIEPY_AVAILABLE,     \* module flag set by the import of moviepy
  LIBROSA_AVAILABLE,     \* module flag set by the import of librosa
  folder,                \* durations of the video files of videos_folder
  audio_ok,              \* librosa can open the audio file
  audio_len,             \* the true length of the audio track
  output_exists,         \* a file exists at output_path
  output_written,        \* this call wrote the file at output_path
  pc,                    \* where the call is
  tiers,                 \* history: the tiers started and how each ended
  beat_times,            \* librosa's beat grid
  clips,                 \* durations of the clips loaded so far
  total_audio_duration,  \* the planner's target span
  current_time,
  clip_idx,
  final_clips,           \* the segments appended: [clip, start, duration]
  transition,            \* the style applied to the last segment
  fixed_count,           \* segments appended by the fixed-timing loop
  final_video,           \* [duration, audio] of the assembled video
  probed,                \* what ffprobe reported to simple_video_concat
  audio_duration,        \* simple_video_concat's audio_duration
  concat_file,           \* unbound | bound: the local name concat_file
  temp_file,             \* the temporary concat list exists on disk
  exc,                   \* an exception is leaving the except clause
  call_site,             \* where create_placeholder_video was called from
  placeholder_duration,  \* the duration the last placeholder asked for
  effect,                \* the fx parameters applied to the last segment
  handles,               \* VideoFileClip/AudioFileClip readers still open
  video_w,               \* width of the video file being normalized
  video_h,               \* height of the video file being normalized
  clip_w,                \* clip.w of the clip being normalized
  clip_h,                \* clip.h of the clip being normalized
  worker_pc,             \* concurrent renders: where each call of
                         \* simple_video_concat is
  worker_f,              \* the temporary file each call holds open as f
  worker_concat_file,    \* each call's local concat_file (0: unbound)
  tmp_owner,             \* temp name -> the call that created the file
                         \* (0: no such file)
  tmp_content,           \* temp name -> the call whose list it holds
  touches,               \* history: [op, by, owner] of every file access
  started,               \* how many renders each worker has started
  p_pc,                  \* pipeline: where run_full_pipeline and main are
  run_no,                \* the number of the pipeline run (0: none yet)
  front,                 \* "cli" (main_pipeline.py) | "streamlit"
  steps,                 \* history: <<step, returned>> of this run's steps
  success,               \* what run_full_pipeline returned
  self_current_audio,    \* self.current_audio is set
  self_final_video,      \* self.final_video is set
  audio_on_disk,         \* the file at self.current_audio exists
  videos_dir,            \* what output/videos holds
  reel,                  \* the run that wrote final_reel_transitions.mp4
                         \* (0: no such file)
  subs_size,             \* size of final_reel_transitions_subtitles.mp4
                         \* (-1: no such file)
  render,                \* what this run's beat_synced_reel call did
  keys_configured,       \* web session: both API keys are set in config.py
  status,                \* pipeline_status['status']
  pipeline_thread,       \* pipeline_status['pipeline_thread'] (0: None)
  task_queue,            \* the updates waiting in
                         \* pipeline_status['task_queue']
  queue_id,              \* which Queue object that is
  alive,                 \* the worker threads that are alive
  thread_queue,          \* thread -> the Queue object it was given
  threads_started        \* how many worker threads were started

editing ==
  <<MOVIEPY_AVAILABLE, LIBROSA_AVAILABLE, folder, audio_ok, audio_len,
    output_exists, output_written, pc, tiers, beat_times, clips,
    total_audio_duration, current_time, clip_idx, final_clips, transition,
    fixed_count, final_video, probed, audio_duration, concat_file, temp_file,
    exc, call_site, placeholder_duration, effect, handles, video_w, video_h,
    clip_w, clip_h>>

workers ==
  <<worker_pc, worker_f, worker_concat_file, tmp_owner, tmp_content, touches,
    started>>

pipeline ==
  <<p_pc, run_no, front, steps, success, self_current_audio,
    self_final_video, audio_on_disk, videos_dir, reel, subs_size, render>>

session ==
  <<keys_configured, status, pipeline_thread, task_queue, queue_id, alive,
    thread_queue, threads_started>>

\* The variables of the programs around one call of beat_synced_reel.
others == <<workers, pipeline, session>>

\* What the actions of each program leave alone.
outside_workers == <<editing, pipeline, session>>
outside_pipeline == <<editing, workers, session>>
outside_session == <<editing, workers, pipeline>>

vars == <<editing, others>>

\* The two renders that run at once, the names the temporary directory can
\* hand out and the renders each worker starts.
Renders == {1, 2}
MaxNames == 3
MaxRenders == 2
TempNames == 1 .. MaxNames

\* No concurrent render has started; the temporary directory is empty.
WorkersIdle ==
  /\ worker_pc = [w \in Renders |-> "idle"]
  /\ worker_f = [w \in Renders |-> 0]
  /\ worker_concat_file = [w \in Renders |-> 0]
  /\ tmp_owner = [n \in TempNames |-> 0]
  /\ tmp_content = [n \in TempNames |-> 0]
  /\ touches = {}
  /\ started = [w \in Renders |-> 0]

\* if sub_file_size > 1024
SubsMinSize == 1024

\* The pipeline runs modelled one after another in one output directory.
MaxRuns == 3

\* No pipeline has run; the output directory holds no video.
PipelineIdle ==
  /\ p_pc = "idle"
  /\ run_no = 0
  /\ front = "cli"
  /\ steps = <<>>
  /\ success = "none"
  /\ self_current_audio = FALSE
  /\ self_final_video = FALSE
  /\ audio_on_disk = FALSE
  /\ videos_dir = "missing"
  /\ reel = 0
  /\ subs_size = -1
  /\ render = "none"

\* The worker threads one session starts, the Queue objects it creates
\* and the updates a queue holds before the script drains it.
MaxThreads == 2
MaxQueues == 4
MaxQueue == 2
Threads == 1 .. MaxThreads

\* A fresh session: pipeline_status as the script initialises it.
SessionFresh ==
  /\ status = "ready"
  /\ pipeline_thread = 0
  /\ task_queue = <<>>
  /\ queue_id = 1
  /\ alive = {}
  /\ thread_queue = [t \in Threads |-> 0]
  /\ threads_started = 0

SessionIdle == keys_configured = TRUE /\ SessionFresh

OthersIdle == WorkersIdle /\ PipelineIdle /\ SessionIdle

inputs == <<MOVIEPY_AVAILABLE, LIBROSA_AVAILABLE, folder, audio_ok, audio_len>>
disk == <<output_exists, output_written>>
planner ==
  <<beat_times, clips, total_audio_duration, current_time, clip_idx,
    final_clips, transition, effect, fixed_count, final_video>>
normalizer == <<video_w, video_h, clip_w, clip_h>>
concat == <<probed, audio_duration, concat_file, exc>>

NoVideo == [duration |-> -1, audio |-> -1]

\* The state at the call of beat_synced_reel, for audio lengths lens and
\* folders fs.
InitWith(lens, fs) ==
  /\ MOVIEPY_AVAILABLE \in BOOLEAN
  /\ LIBROSA_AVAILABLE \in BOOLEAN
  /\ folder \in fs
  /\ audio_ok \in BOOLEAN
  /\ audio_len \in lens
  /\ output_exists \in BOOLEAN
  /\ output_written = FALSE
  /\ pc = "start"
  /\ tiers = <<>>
  /\ beat_times = <<>>
  /\ clips = <<>>
  /\ total_audio_duration = 0
  /\ current_time = 0
  /\ clip_idx = 0
  /\ final_clips = <<>>
  /\ transition = "none"
  /\ fixed_count = 0
  /\ final_video = NoVideo
  /\ probed = -1
  /\ audio_duration = -1
  /\ concat_file = "unbound"
  /\ temp_file = FALSE
  /\ exc = FALSE
  /\ call_site = "none"
  /\ placeholder_duration = -1
  /\ effect = NoEffect
  /\ handles = 0
  /\ video_w = 0
  /\ video_h = 0
  /\ clip_w = 0
  /\ clip_h = 0
  /\ OthersIdle

Init == InitWith(AudioLens, Folders)

(* --------------------------- the controller --------------------------- *)

\* if MOVIEPY_AVAILABLE and LIBROSA_AVAILABLE
PrimaryAvailable == MOVIEPY_AVAILABLE /\ LIBROSA_AVAILABLE

\* The frame of beat_synced_reel_moviepy is gone once it returns or raises.
PopFrame ==
  /\ beat_times' = <<>>
  /\ clips' = <<>>
  /\ total_audio_duration' = 0
  /\ current_time' = 0
  /\ clip_idx' = 0
  /\ final_clips' = <<>>
  /\ transition' = "none"
  /\ effect' = NoEffect
  /\ fixed_count' = 0
  /\ final_video' = NoVideo

\* except Exception around the primary tier: print, then fall through to
\* simple_video_concat.
PrimaryRaises ==
  /\ tiers' = Append(tiers, "primary_raised")
  /\ pc' = "secondary"
  /\ PopFrame

\* Mutant: the controller goes on to the next tier after the primary tier
\* returned.
PrimaryReturns_FallsThrough ==
  /\ tiers' = Append(tiers, "primary_returned")
  /\ pc' = "secondary"
  /\ PopFrame

\* return beat_synced_reel_moviepy(...): beat_synced_reel returns what the
\* primary tier returns.
PrimaryReturns ==
  /\ tiers' = Append(tiers, "primary_returned")
  /\ pc' = "returned"
  /\ PopFrame

\* beat_synced_reel, to its first tier.
Start ==
  /\ pc = "start"
  /\ IF PrimaryAvailable
       THEN tiers' = Append(tiers, "primary") /\ pc' = "analyze"
       ELSE tiers' = Append(tiers, "primary_unavailable")
            /\ pc' = "secondary"
  /\ UNCHANGED <<others, inputs, normalizer, handles, disk, planner, concat,
                 temp_file, call_site, placeholder_duration>>

(* -------------------------- the primary tier -------------------------- *)

\* librosa.load, beat_track, frames_to_time.
AnalyzeAudio ==
  /\ pc = "analyze"
  /\ IF audio_ok
       THEN /\ \E b \in BeatGrids(audio_len) : beat_times' = b
            /\ pc' = "list_videos"
            /\ UNCHANGED <<tiers, clips, total_audio_duration, current_time,
                           clip_idx, final_clips, transition, effect,
                           fixed_count, final_video>>
       ELSE PrimaryRaises
  /\ UNCHANGED <<others, inputs, normalizer, handles, disk, concat, temp_file,
                 call_site, placeholder_duration>>

\* video_files = sorted(...); if not video_files: return
ListVideos ==
  /\ pc = "list_videos"
  /\ IF folder = <<>>
       THEN PrimaryReturns
       ELSE pc' = "load_clips" /\ UNCHANGED <<tiers, planner>>
  /\ UNCHANGED <<others, inputs, normalizer, handles, disk, concat, temp_file,
                 call_site, placeholder_duration>>

\* One round of "for vf in video_files": VideoFileClip(vf), resize, crop,
\* clips.append(clip); a file moviepy cannot read raises.  The clip is
\* followed by its duration here and by its frame size in NormalizeClip.
LoadClip ==
  /\ pc = "load_clips"
  /\ Len(clips) < Len(folder)
  /\ \E readable \in BOOLEAN :
       IF readable
         THEN /\ clips' = Append(clips, folder[Len(clips) + 1])
              /\ handles' = handles + 1
              /\ UNCHANGED <<pc, tiers, beat_times, total_audio_duration,
                             current_time, clip_idx, final_clips, transition,
                             effect, fixed_count, final_video>>
         ELSE PrimaryRaises /\ UNCHANGED handles
  /\ UNCHANGED <<others, inputs, normalizer, disk, concat, temp_file, call_site,
                 placeholder_duration>>

\* Mutant: the target is the span of the beats whatever their number.
TotalDuration_BeatSpan(beats, len, measured) ==
  IF beats = <<>> THEN 0 ELSE beats[Len(beats)] - beats[1]

\* if len(beat_times) < 2: total_audio_duration = librosa.get_duration(...),
\* or 10.0 when that raises; else: beat_times[-1] - beat_times[0].
TotalDuration(beats, len, measured) ==
  IF Len(beats) < 2
    THEN (IF measured THEN len ELSE DefaultDuration)
    ELSE beats[Len(beats)] - beats[1]

\* The end of the loading loop and the choice of the planner's branch.
ChooseBranch ==
  /\ pc = "load_clips"
  /\ Len(clips) = Len(folder)
  /\ \E measured \in BOOLEAN :
       /\ Len(beat_times) >= 2 => measured
       /\ total_audio_duration' =
            TotalDuration(beat_times, audio_len, measured)
  /\ current_time' = 0
  /\ clip_idx' = 0
  /\ pc' = IF Len(beat_times) < 2 THEN "fixed_loop" ELSE "beat_loop"
  /\ UNCHANGED <<others, inputs, normalizer, handles, disk, tiers, beat_times, clips,
                 final_clips, transition, effect, fixed_count, final_video,
                 concat, temp_file, call_site, placeholder_duration>>

\* Mutant: the segment is 2.0 s whatever time remains.
SegmentDuration_Full(total, now) == TwoSeconds

\* duration = min(2.0, total_audio_duration - current_time)
SegmentDuration(total, now) == Min(TwoSeconds, total - now)

\* Mutant: the index stops at the last clip instead of wrapping.
ClipIndex_Stuck(idx, n) == Min(idx, n - 1)

\* current_clip = clips[clip_idx % len(clips)]: the index, from 0.
ClipIndex(idx, n) == idx % n

\* Mutant: the latest start leaves no buffer at the end of the clip.
MaxStart_NoBuffer(clip_duration, duration) == Max(0, clip_duration - duration)

\* Mutant: the latest start leaves room for the buffer only, not for the
\* segment.
MaxStart_IgnoresDuration(clip_duration, duration) ==
  Max(0, clip_duration - HalfSecond)

\* max_start = max(0, current_clip.duration - duration - 0.5)
MaxStart(clip_duration, duration) ==
  Max(0, clip_duration - duration - HalfSecond)

\* random.uniform(0, max_start) if max_start > 0 else 0
StartChoices(max_start) == IF max_start > 0 THEN 0 .. max_start ELSE {0}

\* Mutant: the requested duration is not clamped to the clip.
ActualDuration_NoClamp(duration, clip_duration, random_start) == duration

\* actual_duration = min(duration, current_clip.duration - random_start)
ActualDuration(duration, clip_duration, random_start) ==
  Min(duration, clip_duration - random_start)

\* beats_per_clip = max(1, int(beats_per_second * 2.0)), where
\* beats_per_second = len(beat_times) / (beat_times[-1] - beat_times[0]);
\* beat times are in half seconds, so 2.0 s of beats is 4 * len / span.
BeatsPerClip(beats) ==
  Max(1, (4 * Len(beats)) \div (beats[Len(beats)] - beats[1]))

\* target_beat_idx: the index (from 0) of the first beat at or after now,
\* 0 when there is none.
TargetBeatIdx(beats, now) ==
  LET later == {i \in 1 .. Len(beats) : beats[i] >= now}
  IN IF later = {} THEN 0
     ELSE (CHOOSE i \in later : \A j \in later : i <= j) - 1

\* Mutant: a round of the beat-driven branch cuts up to the target beat.
Segments_BeatAligned ==
  LET to_beat ==
        IF Len(beat_times) < 2 THEN TwoSeconds
        ELSE Max(HalfSecond,
                 beat_times[TargetBeatIdx(beat_times, current_time) + 1]
                   - current_time)
      duration ==
        Min(to_beat, SegmentDuration(total_audio_duration, current_time))
      index == ClipIndex(clip_idx, Len(clips))
      clip_duration == clips[index + 1]
  IN {[clip |-> index, start |-> random_start,
       duration |-> ActualDuration(duration, clip_duration, random_start)] :
        random_start \in StartChoices(MaxStart(clip_duration, duration))}

\* One round of either loop up to the subclip: the segments it can cut.
Segments ==
  LET duration == SegmentDuration(total_audio_duration, current_time)
      index == ClipIndex(clip_idx, Len(clips))
      clip_duration == clips[index + 1]
  IN {[clip |-> index, start |-> random_start,
       duration |-> ActualDuration(duration, clip_duration, random_start)] :
        random_start \in StartChoices(MaxStart(clip_duration, duration))}

\* The styles the fixed-timing loop applies: fadein 0.2, fadeout 0.2.
FixedStyles == {"fade"}

\* Mutant: the loop after the if/else applies the simple fade too.
BeatStyles_FadeOnly == {"fade"}

\* transition = random.choice(transition_styles)
BeatStyles == transition_styles

\* Mutant: the clock advances by the nominal 2.0 s, not by what was cut.
AppendSegment_NominalClock(trimmed) ==
  /\ final_clips' = Append(final_clips, trimmed)
  /\ current_time' = current_time + TwoSeconds
  /\ clip_idx' = clip_idx + 1

\* final_clips.append(trimmed); current_time += actual_duration;
\* clip_idx += 1
AppendSegment(trimmed) ==
  /\ final_clips' = Append(final_clips, trimmed)
  /\ current_time' = current_time + trimmed.duration
  /\ clip_idx' = clip_idx + 1

\* One round of "while current_time < total_audio_duration" in the
\* fewer-than-2-beats branch; subclip or fx may raise.
FixedStep ==
  /\ pc = "fixed_loop"
  /\ current_time < total_audio_duration
  /\ Len(final_clips) < MaxSegments
  /\ \/ /\ \E trimmed \in Segments, style \in FixedStyles :
             /\ AppendSegment(trimmed)
             /\ transition' = style
             /\ effect' = SimpleFade
        /\ fixed_count' = fixed_count + 1
        /\ UNCHANGED <<pc, tiers, beat_times, clips, total_audio_duration,
                       final_video>>
     \/ PrimaryRaises
  /\ UNCHANGED <<others, inputs, normalizer, handles, disk, concat, temp_file,
                 call_site, placeholder_duration>>

\* Mutant: the fixed-timing loop is left before the span is covered.
FixedExit_Early ==
  /\ pc = "fixed_loop"
  /\ pc' = "beat_loop"
  /\ UNCHANGED <<others, inputs, normalizer, handles, disk, tiers, planner, concat,
                 temp_file, call_site, placeholder_duration>>

\* The fixed-timing loop ends; control falls to the loop that follows the
\* if/else.
FixedExit ==
  /\ pc = "fixed_loop"
  /\ ~(current_time < total_audio_duration)
  /\ pc' = "beat_loop"
  /\ UNCHANGED <<others, inputs, normalizer, handles, disk, tiers, planner, concat,
                 temp_file, call_site, placeholder_duration>>

\* One round of the loop after the if/else; subclip or fx may raise.
BeatStep ==
  /\ pc = "beat_loop"
  /\ current_time < total_audio_duration
  /\ Len(final_clips) < MaxSegments
  /\ \/ /\ \E trimmed \in Segments, style \in BeatStyles :
             /\ AppendSegment(trimmed)
             /\ transition' = style
             /\ effect' = ApplyTransition(style)
        /\ UNCHANGED <<pc, tiers, beat_times, clips, total_audio_duration,
                       fixed_count, final_video>>
     \/ PrimaryRaises
  /\ UNCHANGED <<others, inputs, normalizer, handles, disk, concat, temp_file,
                 call_site, placeholder_duration>>

\* The loop ends; if not final_clips: return.  The loop's local
\* transition is dead from here on and is forgotten.
BeatExit ==
  /\ pc = "beat_loop"
  /\ ~(current_time < total_audio_duration)
  /\ IF final_clips = <<>>
       THEN PrimaryReturns
       ELSE /\ pc' = "assemble"
            /\ transition' = "none"
            /\ effect' = NoEffect
            /\ UNCHANGED <<tiers, beat_times, clips, total_audio_duration,
                           current_time, clip_idx, final_clips, fixed_count,
                           final_video>>
  /\ UNCHANGED <<others, inputs, normalizer, handles, disk, concat, temp_file,
                 call_site, placeholder_duration>>

\* concatenate_videoclips(final_clips), AudioFileClip(audio_path),
\* set_audio: the video lasts as long as its segments, the audio as long
\* as the track.
Assembled(segments, len) ==
  [duration |-> SumDurations(segments), audio |-> len]

Assemble ==
  /\ pc = "assemble"
  /\ final_video' = Assembled(final_clips, audio_len)
  /\ handles' = handles + 1
  /\ pc' = "export"
  /\ UNCHANGED <<others, inputs, normalizer, disk, tiers, beat_times, clips,
                 total_audio_duration, current_time, clip_idx, final_clips,
                 transition, effect, fixed_count, concat, temp_file,
                 call_site, placeholder_duration>>

\* final_video.write_videofile(output_path, ...): writes the file, or
\* raises.
Export ==
  /\ pc = "export"
  /\ \/ /\ output_exists' = TRUE
        /\ output_written' = TRUE
        /\ PrimaryReturns
     \/ /\ PrimaryRaises
        /\ UNCHANGED disk
  /\ UNCHANGED <<others, inputs, normalizer, handles, concat, temp_file, call_site,
                 placeholder_duration>>

(* ------------------------- get_audio_duration ------------------------- *)

\* What ffprobe can report for the track: its length, or nothing (-1) when
\* ffprobe fails or its output cannot be parsed.
Probes == {audio_len, -1}

\* Mutant: the duration is not capped.
get_audio_duration_NoCap(reported) ==
  IF reported >= 0 THEN reported ELSE ProbeDefault

\* return min(duration, 60); except Exception: return 30.0
get_audio_duration(reported) ==
  IF reported >= 0 THEN Min(reported, AudioCap) ELSE ProbeDefault

(* ------------------------- the secondary tier ------------------------- *)

\* The frame of simple_video_concat is gone once it returns or raises; the
\* temporary file is on disk and stays as it is.
PopConcat ==
  /\ probed' = -1
  /\ audio_duration' = -1
  /\ concat_file' = "unbound"
  /\ exc' = FALSE

\* Mutant: the exception of simple_video_concat is not caught.
SecondaryRaises_Uncaught ==
  /\ pc' = "raised"
  /\ call_site' = "none"
  /\ PopConcat

\* except Exception around simple_video_concat: print, then
\* create_placeholder_video(output_path, audio_path), outside any try.
SecondaryRaises ==
  /\ pc' = "placeholder"
  /\ call_site' = "controller"
  /\ PopConcat

\* return simple_video_concat(...)
SecondaryReturns ==
  /\ pc' = "returned"
  /\ call_site' = "none"
  /\ PopConcat

\* simple_video_concat up to its try: the listing (no video file raises
\* FileNotFoundError), audio_duration = get_audio_duration(audio_path).
ConcatStart ==
  /\ pc = "secondary"
  /\ IF folder = <<>>
       THEN /\ tiers' = tiers \o <<"secondary", "secondary_failed">>
            /\ SecondaryRaises
       ELSE /\ tiers' = Append(tiers, "secondary")
            /\ \E reported \in Probes :
                 /\ probed' = reported
                 /\ audio_duration' = get_audio_duration(reported)
            /\ pc' = "concat_list"
            /\ UNCHANGED <<call_site, concat_file, exc>>
  /\ UNCHANGED <<others, inputs, normalizer, handles, disk, planner, temp_file,
                 placeholder_duration>>

\* with tempfile.NamedTemporaryFile(..., delete=False) as f: the writes,
\* then concat_file = f.name.  The file exists once it is opened; a write
\* that raises leaves the name concat_file unbound.
WriteConcatList ==
  /\ pc = "concat_list"
  /\ temp_file' = TRUE
  /\ \/ /\ concat_file' = "bound"
        /\ pc' = "ffmpeg"
        /\ UNCHANGED tiers
     \/ /\ pc' = "concat_except"
        /\ tiers' = Append(tiers, "secondary_failed")
        /\ UNCHANGED concat_file
  /\ UNCHANGED <<others, inputs, normalizer, handles, disk, planner, probed,
                 audio_duration, exc, call_site, placeholder_duration>>

\* if os.path.exists(output_path) after a zero return code.
OutputFound(result) == result = "ok" \/ (result = "missing" /\ output_exists)

\* subprocess.run(cmd) and the branch on its result: ffmpeg fails, or
\* returns 0 having written output_path, or returns 0 without it.
RunFfmpeg ==
  /\ pc = "ffmpeg"
  /\ \E result \in {"failed", "ok", "missing"} :
       /\ IF result = "ok"
            THEN output_exists' = TRUE /\ output_written' = TRUE
            ELSE UNCHANGED disk
       /\ IF result # "failed" /\ OutputFound(result)
            THEN /\ pc' = "concat_finally"
                 /\ tiers' = Append(tiers, "secondary_ok")
                 /\ UNCHANGED call_site
            ELSE /\ pc' = "placeholder"
                 /\ tiers' = Append(tiers, "secondary_failed")
                 /\ call_site' = "concat_try"
  /\ UNCHANGED <<others, inputs, normalizer, handles, planner, concat, temp_file,
                 placeholder_duration>>

\* except Exception as e: print, create_placeholder_video(...)
ConcatExcept ==
  /\ pc = "concat_except"
  /\ pc' = "placeholder"
  /\ call_site' = "concat_except"
  /\ UNCHANGED <<others, inputs, normalizer, handles, disk, tiers, planner, concat,
                 temp_file, placeholder_duration>>

\* if 'concat_file' in locals() and os.path.exists(concat_file)
Unlinks == concat_file = "bound" /\ temp_file

\* finally: os.unlink(concat_file); then the function returns, or the
\* exception that left the except clause goes on to the controller.
ConcatFinally ==
  /\ pc = "concat_finally"
  /\ temp_file' = IF Unlinks THEN FALSE ELSE temp_file
  /\ IF exc THEN SecondaryRaises ELSE SecondaryReturns
  /\ UNCHANGED <<others, inputs, normalizer, handles, disk, tiers, planner,
                 placeholder_duration>>

(* -------------------------- the placeholder --------------------------- *)

\* Where control goes when create_placeholder_video returns: the calls
\* inside simple_video_concat go on to its finally, the controller's call
\* ends beat_synced_reel.
AfterPlaceholder(site) ==
  IF site = "controller" THEN "returned" ELSE "concat_finally"

\* Where the exception of create_placeholder_video goes: from the try
\* block to the except clause, from the except clause through finally to
\* the controller, from the controller to the caller.
PlaceholderRaisesTo(site) ==
  CASE site = "concat_try" -> "concat_except"
    [] site = "concat_except" -> "concat_finally"
    [] OTHER -> "raised"

\* create_placeholder_video: get_audio_duration, then ffmpeg with
\* check=True, which writes output_path or raises.
CreatePlaceholder ==
  /\ pc = "placeholder"
  /\ \E reported \in Probes :
       placeholder_duration' = get_audio_duration(reported)
  /\ \/ /\ tiers' = tiers \o <<"placeholder", "placeholder_ok">>
        /\ output_exists' = TRUE
        /\ output_written' = TRUE
        /\ pc' = AfterPlaceholder(call_site)
        /\ UNCHANGED exc
     \/ /\ tiers' = tiers \o <<"placeholder", "placeholder_raised">>
        /\ pc' = PlaceholderRaisesTo(call_site)
        /\ exc' = (call_site = "concat_except")
        /\ UNCHANGED disk
  /\ UNCHANGED <<others, inputs, normalizer, handles, planner, probed, audio_duration,
                 concat_file, temp_file, call_site>>

\* The frames in which beat_synced_reel_moviepy runs.
InPrimary ==
  pc \in {"analyze", "list_videos", "load_clips", "fixed_loop", "beat_loop",
          "assemble", "export"}

\* No statement of editing.py closes a clip or its reader: the readers
\* stay open until the interpreter finalizes the clip objects, which it
\* may do at any time once the frame that held them is gone, or never.
Collect ==
  /\ ~InPrimary
  /\ handles > 0
  /\ handles' = 0
  /\ UNCHANGED <<others, inputs, normalizer, disk, pc, tiers, planner, concat,
                 temp_file, call_site, placeholder_duration>>

Next ==
  \/ Start
  \/ AnalyzeAudio
  \/ ListVideos
  \/ LoadClip
  \/ ChooseBranch
  \/ FixedStep
  \/ FixedExit
  \/ BeatStep
  \/ BeatExit
  \/ Assemble
  \/ Export
  \/ ConcatStart
  \/ WriteConcatList
  \/ RunFfmpeg
  \/ ConcatExcept
  \/ ConcatFinally
  \/ CreatePlaceholder
  \/ Collect

Spec == Init /\ [][Next]_vars

\* An audio track longer than the 60 s cap.
LongAudio == AudioCap + 1

\* Calls with audio around the 60 s cap and at most one clip.
InitLong ==
  InitWith({MaxAudio, AudioCap, LongAudio}, SeqsUpTo(ClipDurations, 1))

SpecLong == InitLong /\ [][Next]_vars

\* Calls in which the primary tier runs as far as its planner: MoviePy and
\* librosa are present, librosa can open the audio and no file is at
\* output_path beforehand.
InitPrimary == Init /\ PrimaryAvailable /\ audio_ok /\ ~output_exists

SpecPrimary == InitPrimary /\ [][Next]_vars

\* Calls in which the primary tier runs as far as its planner, on folders
\* of one clip at most.
InitSegments == InitPrimary /\ Len(folder) <= 1

SpecSegments == InitSegments /\ [][Next]_vars

\* Calls on folders of one very short or one very long clip at most, which
\* make plans of many and of few segments.
InitPlanner == InitWith(AudioLens, SeqsUpTo({HalfSecond, MaxClipDur}, 1))

SpecPlanner == InitPlanner /\ [][Next]_vars

(* ------------------------- the clip normalizer ------------------------ *)

\* int(x / 2) of Python: towards zero.
HalfTowardsZero(x) == IF x >= 0 THEN x \div 2 ELSE -((-x) \div 2)

\* clip.resize(height=new_h): moviepy asks for [w * new_h / h, new_h] and
\* its resizer takes int() of both.
ResizeHeight(w, h, new_h) == [w |-> (w * new_h) \div h, h |-> new_h]

\* clip.resize(width=new_w): [new_w, h * new_w / w], int() of both.
ResizeWidth(w, h, new_w) == [w |-> new_w, h |-> (h * new_w) \div w]

\* clip.crop(x_center=clip.w / 2, width=width): the columns
\* int(x_center - width / 2) up to int(x_center + width / 2) of the
\* frame, as far as the frame has them.
CropWidth(w, h, width) ==
  [w |-> Min(HalfTowardsZero(w + width), w)
           - Max(HalfTowardsZero(w - width), 0),
   h |-> h]

\* Mutant: the crop of the height is left out.
CropHeight_Skipped(w, h, height) == [w |-> w, h |-> h]

\* clip.crop(y_center=clip.h / 2, height=height)
CropHeight(w, h, height) ==
  [w |-> w,
   h |-> Min(HalfTowardsZero(h + height), h)
           - Max(HalfTowardsZero(h - height), 0)]

\* if clip.w / clip.h > 1080 / 1920: both sides are exact or far apart in
\* floating point for pixel counts, so the test is the one on integers.
TooWide(w, h) == w * TargetH > TargetW * h

\* The body of "for vf in video_files" from the resize on.
Normalize(w, h) ==
  IF TooWide(w, h)
    THEN LET resized == ResizeHeight(w, h, TargetH)
         IN CropWidth(resized.w, resized.h, TargetW)
    ELSE LET resized == ResizeWidth(w, h, TargetW)
         IN IF resized.h > TargetH
              THEN CropHeight(resized.w, resized.h, TargetH)
              ELSE resized

\* The widths and heights a video file is drawn from: tiny, common and
\* large frames and the frames next to the target.
Dims ==
  {1, 2, 9, 16, 607, 608, 720, 1279, 1280, TargetW - 1, TargetW, TargetW + 1,
   TargetH - 1, TargetH, TargetH + 1, MaxDim - 1, MaxDim}

\* One round of the loading loop seen by its frame sizes: clip =
\* VideoFileClip(vf), then the resize and the crop.
NormalizeClip ==
  /\ pc = "normalize"
  /\ clip_w' = Normalize(video_w, video_h).w
  /\ clip_h' = Normalize(video_w, video_h).h
  /\ pc' = "normalized"
  /\ UNCHANGED <<others, inputs, video_w, video_h, handles, disk, tiers, planner,
                 concat, temp_file, call_site, placeholder_duration>>

\* A video file of any size in Dims, about to be normalized.
InitNormalize ==
  /\ MOVIEPY_AVAILABLE = TRUE
  /\ LIBROSA_AVAILABLE = TRUE
  /\ folder = <<>>
  /\ audio_ok = TRUE
  /\ audio_len = 0
  /\ output_exists = FALSE
  /\ output_written = FALSE
  /\ pc = "normalize"
  /\ tiers = <<>>
  /\ beat_times = <<>>
  /\ clips = <<>>
  /\ total_audio_duration = 0
  /\ current_time = 0
  /\ clip_idx = 0
  /\ final_clips = <<>>
  /\ transition = "none"
  /\ fixed_count = 0
  /\ final_video = NoVideo
  /\ probed = -1
  /\ audio_duration = -1
  /\ concat_file = "unbound"
  /\ temp_file = FALSE
  /\ exc = FALSE
  /\ call_site = "none"
  /\ placeholder_duration = -1
  /\ effect = NoEffect
  /\ handles = 0
  /\ video_w \in Dims
  /\ video_h \in Dims
  /\ clip_w = 0
  /\ clip_h = 0
  /\ OthersIdle

NextNormalize == NormalizeClip

SpecNormalize == InitNormalize /\ [][NextNormalize]_vars

(* ---------------- two concurrent simple_video_concat ------------------ *)

\* No call of beat_synced_reel is modelled step by step.
EditingIdle ==
  /\ MOVIEPY_AVAILABLE = TRUE
  /\ LIBROSA_AVAILABLE = TRUE
  /\ folder = <<>>
  /\ audio_ok = TRUE
  /\ audio_len = 0
  /\ output_exists = FALSE
  /\ output_written = FALSE
  /\ pc = "idle"
  /\ tiers = <<>>
  /\ beat_times = <<>>
  /\ clips = <<>>
  /\ total_audio_duration = 0
  /\ current_time = 0
  /\ clip_idx = 0
  /\ final_clips = <<>>
  /\ transition = "none"
  /\ fixed_count = 0
  /\ final_video = NoVideo
  /\ probed = -1
  /\ audio_duration = -1
  /\ concat_file = "unbound"
  /\ temp_file = FALSE
  /\ exc = FALSE
  /\ call_site = "none"
  /\ placeholder_duration = -1
  /\ effect = NoEffect
  /\ handles = 0
  /\ video_w = 0
  /\ video_h = 0
  /\ clip_w = 0
  /\ clip_h = 0

\* The temporary files that exist.
Existing == {n \in TempNames : tmp_owner[n] # 0}

\* Mutant: the list is opened for writing under any name, taken or not.
NewNames_Any == TempNames

\* tempfile.NamedTemporaryFile creates its file exclusively: the name it
\* picks is the name of no existing file.
NewNames == TempNames \ Existing

Touch(op, w, n) == [op |-> op, by |-> w, owner |-> tmp_owner[n]]

\* with tempfile.NamedTemporaryFile(mode='w', suffix='.txt', delete=False)
\* as f; when no name is free the call raises and control goes through the
\* except clause to finally, concat_file unbound.
CreateTemp(w) ==
  /\ worker_pc[w] = "idle"
  /\ started[w] < MaxRenders
  /\ started' = [started EXCEPT ![w] = @ + 1]
  /\ IF NewNames = {}
     THEN /\ worker_pc' = [worker_pc EXCEPT ![w] = "finally"]
          /\ UNCHANGED <<worker_f, tmp_owner, tmp_content>>
     ELSE \E n \in NewNames :
            /\ tmp_owner' = [tmp_owner EXCEPT ![n] = w]
            /\ tmp_content' = [tmp_content EXCEPT ![n] = 0]
            /\ worker_f' = [worker_f EXCEPT ![w] = n]
            /\ worker_pc' = [worker_pc EXCEPT ![w] = "write"]
  /\ UNCHANGED <<outside_workers, worker_concat_file, touches>>

\* for video_file in video_files: f.write(...); concat_file = f.name.  A
\* write that raises leaves concat_file unbound and the file on disk.
WriteList(w) ==
  /\ worker_pc[w] = "write"
  /\ \/ /\ tmp_content' = [tmp_content EXCEPT ![worker_f[w]] = w]
        /\ touches' = touches \cup {Touch("write", w, worker_f[w])}
        /\ worker_concat_file' =
             [worker_concat_file EXCEPT ![w] = worker_f[w]]
        /\ worker_pc' = [worker_pc EXCEPT ![w] = "ffmpeg"]
     \/ /\ worker_pc' = [worker_pc EXCEPT ![w] = "finally"]
        /\ UNCHANGED <<tmp_content, touches, worker_concat_file>>
  /\ worker_f' = [worker_f EXCEPT ![w] = 0]
  /\ UNCHANGED <<outside_workers, tmp_owner, started>>

\* subprocess.run(cmd): ffmpeg reads the list at concat_file; whatever it
\* returns or raises, control reaches finally.
ReadList(w) ==
  /\ worker_pc[w] = "ffmpeg"
  /\ touches' = touches \cup {Touch("read", w, worker_concat_file[w])}
  /\ worker_pc' = [worker_pc EXCEPT ![w] = "finally"]
  /\ UNCHANGED <<outside_workers, worker_f, worker_concat_file, tmp_owner,
                 tmp_content, started>>

\* finally: if 'concat_file' in locals() and os.path.exists(concat_file)
CheckList(w) ==
  /\ worker_pc[w] = "finally"
  /\ IF worker_concat_file[w] # 0 /\ worker_concat_file[w] \in Existing
     THEN worker_pc' = [worker_pc EXCEPT ![w] = "unlink"]
          /\ UNCHANGED worker_concat_file
     ELSE /\ worker_pc' = [worker_pc EXCEPT ![w] = "idle"]
          /\ worker_concat_file' = [worker_concat_file EXCEPT ![w] = 0]
  /\ UNCHANGED <<outside_workers, worker_f, tmp_owner, tmp_content, touches,
                 started>>

\* os.unlink(concat_file); the call returns (or raises, when the file is
\* gone) and its frame with it.
UnlinkList(w) ==
  /\ worker_pc[w] = "unlink"
  /\ LET n == worker_concat_file[w]
     IN IF n \in Existing
        THEN /\ touches' = touches \cup {Touch("unlink", w, n)}
             /\ tmp_owner' = [tmp_owner EXCEPT ![n] = 0]
             /\ tmp_content' = [tmp_content EXCEPT ![n] = 0]
        ELSE UNCHANGED <<touches, tmp_owner, tmp_content>>
  /\ worker_pc' = [worker_pc EXCEPT ![w] = "idle"]
  /\ worker_concat_file' = [worker_concat_file EXCEPT ![w] = 0]
  /\ UNCHANGED <<outside_workers, worker_f, started>>

InitRenders == EditingIdle /\ OthersIdle

NextRenders ==
  \E w \in Renders :
    \/ CreateTemp(w)
    \/ WriteList(w)
    \/ ReadList(w)
    \/ CheckList(w)
    \/ UnlinkList(w)

SpecRenders == InitRenders /\ [][NextRenders]_vars

(* --------------------------- the pipeline ----------------------------- *)

\* Mutant: a step that returned False does not end the run.
StepDone_IgnoresFailure(k, ok) ==
  /\ steps' = Append(steps, <<k, ok>>)
  /\ IF k = 4
     THEN p_pc' = "returned" /\ success' = "true"
     ELSE p_pc' = <<"step2", "step3", "step4">>[k] /\ UNCHANGED success

\* if not self.stepK(...): return False; after the fourth: return True
StepDone(k, ok) ==
  /\ steps' = Append(steps, <<k, ok>>)
  /\ IF ~ok
     THEN p_pc' = "returned" /\ success' = "false"
     ELSE IF k = 4
          THEN p_pc' = "returned" /\ success' = "true"
          ELSE p_pc' = <<"step2", "step3", "step4">>[k] /\ UNCHANGED success

\* pipeline = ReelPipeline() (StreamlitPipeline(task_queue) in the web
\* front end); run_full_pipeline is called.
StartRun ==
  /\ p_pc = "idle"
  /\ run_no < MaxRuns
  /\ run_no' = run_no + 1
  /\ front' \in {"cli", "streamlit"}
  /\ steps' = <<>>
  /\ success' = "none"
  /\ self_current_audio' = FALSE
  /\ self_final_video' = FALSE
  /\ render' = "none"
  /\ p_pc' = "step1"
  /\ UNCHANGED <<outside_pipeline, audio_on_disk, videos_dir, reel,
                 subs_size>>

\* step1_generate_voice: the audio is generated and moved to the output
\* directory, or an exception makes the step return False.
Step1 ==
  /\ p_pc = "step1"
  /\ \/ /\ self_current_audio' = TRUE
        /\ audio_on_disk' = TRUE
        /\ StepDone(1, TRUE)
     \/ /\ UNCHANGED <<self_current_audio, audio_on_disk>>
        /\ StepDone(1, FALSE)
  /\ UNCHANGED <<outside_pipeline, run_no, front, self_final_video,
                 videos_dir, reel, subs_size, render>>

\* What output/videos can hold after videos_dir.mkdir(exist_ok=True) and
\* the move of the downloaded *.mp4 files: nothing is ever removed, and
\* no download is no failure.
AfterDownload(dir) ==
  CASE dir \in {"missing", "empty"} -> {"empty", "videos"}
    [] dir = "other_only" -> {"other_only", "videos"}
    [] OTHER -> {"videos"}

\* step2_download_content
Step2 ==
  /\ p_pc = "step2"
  /\ \/ /\ videos_dir' \in AfterDownload(videos_dir)
        /\ StepDone(2, TRUE)
     \/ /\ videos_dir' \in {videos_dir} \cup AfterDownload(videos_dir)
        /\ StepDone(2, FALSE)
  /\ UNCHANGED <<outside_pipeline, run_no, front, self_current_audio,
                 self_final_video, audio_on_disk, reel, subs_size, render>>

\* What a call of beat_synced_reel can do to output_path: write the file
\* and return, return without writing (beat_synced_reel_moviepy returned
\* None: no video file in the folder, or no usable clip), or raise.
RenderOutcomes == {"wrote", "nothing", "raised"}

\* step3_edit_video
Step3 ==
  /\ p_pc = "step3"
  /\ IF ~audio_on_disk \/ videos_dir \in {"missing", "empty"}
     THEN /\ StepDone(3, FALSE)
          /\ UNCHANGED <<reel, render, self_final_video>>
     ELSE \E did \in RenderOutcomes :
            /\ render' = did
            /\ reel' = IF did = "wrote" THEN run_no ELSE reel
            /\ IF did # "raised" /\ reel' # 0
               THEN self_final_video' = TRUE /\ StepDone(3, TRUE)
               ELSE UNCHANGED self_final_video /\ StepDone(3, FALSE)
  /\ UNCHANGED <<outside_pipeline, run_no, front, self_current_audio,
                 audio_on_disk, videos_dir, subs_size>>

\* The sizes a subtitled video can have.
Sizes == {0, SubsMinSize, SubsMinSize + 1}

\* step4_generate_subtitles: transcribe_audio fails; or
\* create_hard_subtitles moves ffmpeg's output to the subtitled path and
\* returns whether a file is there; or it fails and leaves the path alone.
Step4 ==
  /\ p_pc = "step4"
  /\ \/ /\ UNCHANGED subs_size
        /\ StepDone(4, FALSE)
     \/ /\ reel # 0
        /\ subs_size' \in Sizes
        /\ StepDone(4, TRUE)
     \/ /\ reel # 0
        /\ UNCHANGED subs_size
        /\ StepDone(4, subs_size >= 0)
  /\ UNCHANGED <<outside_pipeline, run_no, front, self_current_audio,
                 self_final_video, audio_on_disk, videos_dir, reel, render>>

\* Mutant: a subtitled video of exactly 1024 bytes counts as valid.
LargeEnough_AtLeast(size) == size >= SubsMinSize

\* if sub_file_size > 1024
LargeEnough(size) == size > SubsMinSize

\* main's finally: pipeline.cleanup().  os.remove may fail (except: pass).
Cleanup ==
  /\ p_pc = "returned"
  /\ front = "cli"
  /\ IF self_current_audio /\ audio_on_disk
     THEN audio_on_disk' \in {FALSE, TRUE}
     ELSE UNCHANGED audio_on_disk
  /\ IF subs_size >= 0 /\ self_final_video /\ reel # 0
        /\ LargeEnough(subs_size)
     THEN reel' \in {0, reel}
     ELSE UNCHANGED reel
  /\ p_pc' = "idle"
  /\ UNCHANGED <<outside_pipeline, run_no, front, steps, success,
                 self_current_audio, self_final_video, videos_dir, subs_size,
                 render>>

\* run_pipeline_thread ends: the web front end has no cleanup.
ThreadEnds ==
  /\ p_pc = "returned"
  /\ front = "streamlit"
  /\ p_pc' = "idle"
  /\ UNCHANGED <<outside_pipeline, run_no, front, steps, success,
                 self_current_audio, self_final_video, audio_on_disk,
                 videos_dir, reel, subs_size, render>>

\* An output directory that may hold a stray file in output/videos.
InitPipeline ==
  /\ EditingIdle
  /\ WorkersIdle
  /\ SessionIdle
  /\ p_pc = "idle"
  /\ run_no = 0
  /\ front = "cli"
  /\ steps = <<>>
  /\ success = "none"
  /\ self_current_audio = FALSE
  /\ self_final_video = FALSE
  /\ audio_on_disk = FALSE
  /\ videos_dir \in {"missing", "other_only"}
  /\ reel = 0
  /\ subs_size = -1
  /\ render = "none"

NextPipeline ==
  \/ StartRun
  \/ Step1
  \/ Step2
  \/ Step3
  \/ Step4
  \/ Cleanup
  \/ ThreadEnds

SpecPipeline == InitPipeline /\ [][NextPipeline]_vars

(* ------------------------ the Streamlit session ---------------------- *)

\* The statuses update_status puts on the queue.
WorkerStatuses == {"running", "completed", "warning", "error"}

\* while not task_queue.empty(): pipeline_status.update(status_update):
\* the status after the drain is the one of the last update.
Drained ==
  IF task_queue = <<>> THEN status ELSE task_queue[Len(task_queue)]

\* A script run with no button pressed (st.rerun, auto-refresh): the queue
\* is drained.
Rerun ==
  /\ task_queue # <<>>
  /\ status' = Drained
  /\ task_queue' = <<>>
  /\ UNCHANGED <<outside_session, keys_configured, pipeline_thread,
                 queue_id, alive, thread_queue, threads_started>>

\* Stop pressed: a running pipeline is marked stopped and the script
\* reruns; the worker thread is not told.  Otherwise the script goes on to
\* the drain.
PressStop ==
  /\ IF status = "running"
     THEN status' = "stopped" /\ UNCHANGED task_queue
     ELSE status' = Drained /\ task_queue' = <<>>
  /\ UNCHANGED <<outside_session, keys_configured, pipeline_thread,
                 queue_id, alive, thread_queue, threads_started>>

\* Reset pressed: pipeline_status is replaced by a fresh dict, with a new
\* Queue and 'pipeline_thread': None, and the script reruns.
PressReset ==
  /\ queue_id < MaxQueues
  /\ status' = "ready"
  /\ pipeline_thread' = 0
  /\ task_queue' = <<>>
  /\ queue_id' = queue_id + 1
  /\ UNCHANGED <<outside_session, keys_configured, alive, thread_queue,
                 threads_started>>

\* prev_thread and prev_thread.is_alive()
PreviousAlive == pipeline_thread # 0 /\ pipeline_thread \in alive

\* Start pressed: the script drains the queue on its way to the Start
\* handler, which starts a worker thread unless a key is missing, the
\* status is 'running' or the previous thread is alive.
PressStart ==
  IF ~keys_configured \/ Drained = "running" \/ PreviousAlive
  THEN /\ status' = Drained
       /\ task_queue' = <<>>
       /\ UNCHANGED <<outside_session, keys_configured, pipeline_thread,
                      queue_id, alive, thread_queue, threads_started>>
  ELSE /\ threads_started < MaxThreads
       /\ queue_id < MaxQueues
       /\ status' = "running"
       /\ task_queue' = <<>>
       /\ queue_id' = queue_id + 1
       /\ threads_started' = threads_started + 1
       /\ pipeline_thread' = threads_started'
       /\ alive' = alive \cup {threads_started'}
       /\ thread_queue' =
            [thread_queue EXCEPT ![threads_started'] = queue_id']
       /\ UNCHANGED <<outside_session, keys_configured>>

\* update_status: a worker puts a status update on the Queue it was
\* given; the session sees it only while that is still its queue.
WorkerUpdate(t) ==
  /\ t \in alive
  /\ IF thread_queue[t] = queue_id
     THEN /\ Len(task_queue) < MaxQueue
          /\ \E u \in WorkerStatuses : task_queue' = Append(task_queue, u)
     ELSE UNCHANGED task_queue
  /\ UNCHANGED <<outside_session, keys_configured, status, pipeline_thread,
                 queue_id, alive, thread_queue, threads_started>>

\* run_pipeline_thread returns: the thread is no longer alive.
WorkerExit(t) ==
  /\ t \in alive
  /\ alive' = alive \ {t}
  /\ UNCHANGED <<outside_session, keys_configured, status, pipeline_thread,
                 task_queue, queue_id, thread_queue, threads_started>>

InitSession ==
  /\ EditingIdle
  /\ WorkersIdle
  /\ PipelineIdle
  /\ keys_configured \in BOOLEAN
  /\ SessionFresh

NextSession ==
  \/ Rerun
  \/ PressStop
  \/ PressReset
  \/ PressStart
  \/ \E t \in Threads : WorkerUpdate(t)
  \/ \E t \in Threads : WorkerExit(t)

SpecSession == InitSession /\ [][NextSession]_vars

(* ------------------------------ claims -------------------------------- *)

Range(s) == {s[i] : i \in DOMAIN s}

\* Both planning loops are over: control is past them, or at a loop whose
\* condition is false.
PlannerDone ==
  \/ pc \in {"assemble", "export"}
  \/ /\ pc \in {"fixed_loop", "beat_loop"}
     /\ ~(current_time < total_audio_duration)

\* C1 (as claimed): whenever beat_synced_reel has returned normally, this
\* call wrote a file at output_path.
C1_OutputAfterReturn == pc = "returned" => (output_exists /\ output_written)

\* C2: when the planner terminates on a non-empty clip pool, the durations
\* of the segments it appended sum to its target: last_beat - first_beat
\* with 2 beats or more, else the measured audio duration (10.0 s when
\* librosa.get_duration raised).
C2_SumEqualsTarget ==
  (PlannerDone /\ clips # <<>>) =>
    /\ SumDurations(final_clips) = total_audio_duration
    /\ Len(beat_times) >= 2 =>
         SumDurations(final_clips) = beat_times[Len(beat_times)] - beat_times[1]
    /\ Len(beat_times) < 2 =>
         SumDurations(final_clips) \in {audio_len, DefaultDuration}

\* C2 witness: planning is over, took three segments or more and the pool
\* holds a clip shorter than 2 s.
C2_Witness ==
  /\ PlannerDone
  /\ Len(final_clips) >= 3
  /\ \E i \in DOMAIN clips : clips[i] > 0 /\ clips[i] < TwoSeconds

\* C3: the tiers start in the order primary, secondary, placeholder: the
\* primary tier only first, the secondary tier only after the primary
\* tier raised or was unavailable, the placeholder only after the
\* secondary tier started and failed, and no tier after one succeeded.
C3_TierOrder ==
  \A i \in DOMAIN tiers :
    /\ tiers[i] = "primary" => i = 1
    /\ tiers[i] = "secondary" =>
         \E j \in 1 .. i - 1 :
           tiers[j] \in {"primary_raised", "primary_unavailable"}
    /\ tiers[i] = "placeholder" =>
         \E j \in 1 .. i - 1 : \E k \in j + 1 .. i - 1 :
           tiers[j] = "secondary" /\ tiers[k] = "secondary_failed"
    /\ tiers[i] \in {"primary_returned", "secondary_ok", "placeholder_ok"} =>
         \A k \in i + 1 .. Len(tiers) :
           tiers[k] \notin {"primary", "secondary", "placeholder"}

\* C3 witness: all three tiers ran, the placeholder succeeding.
C3_Witness ==
  /\ {"primary_raised", "secondary_failed", "placeholder_ok"}
       \subseteq Range(tiers)
  /\ pc = "returned"

\* C4 (as claimed): with no video file in the folder the call does not
\* return normally and never starts the placeholder.
C4_NoClipsIsFatal ==
  folder = <<>> => (pc # "returned" /\ "placeholder" \notin Range(tiers))

\* C5: an exception reaches the caller of beat_synced_reel only when the
\* last thing that happened is create_placeholder_video raising.
C5_OnlyPlaceholderFailureSurfaces ==
  pc = "raised" =>
    (tiers # <<>> /\ tiers[Len(tiers)] = "placeholder_raised")

\* C5 witness: the primary and the secondary tier failed and the call
\* raised.
C5_Witness ==
  /\ pc = "raised"
  /\ {"primary_raised", "secondary_failed"} \subseteq Range(tiers)

\* C6: every segment starts at 0 or later and ends within the clip it is
\* cut from.
C6_SegmentWithinClip ==
  \A i \in DOMAIN final_clips :
    /\ final_clips[i].clip + 1 \in DOMAIN clips
    /\ 0 <= final_clips[i].start
    /\ final_clips[i].start + final_clips[i].duration
         <= clips[final_clips[i].clip + 1]

\* C6 witness: one segment starts inside its clip, another is cut from a
\* clip shorter than 2 s.
C6_Witness ==
  /\ \E i \in DOMAIN final_clips : final_clips[i].start > 0
  /\ \E i \in DOMAIN final_clips :
       clips[final_clips[i].clip + 1] < TwoSeconds

\* C7 (as claimed): every segment appended has a duration above 0.
C7_PositiveDuration ==
  \A i \in DOMAIN final_clips : final_clips[i].duration > 0

\* C8 (as claimed): the assembled video lasts as long as the audio track
\* attached to it.
C8_VideoMatchesAudio ==
  pc = "export" => final_video.duration = final_video.audio

AllClipsLong == clips # <<>> /\ \A i \in DOMAIN clips : clips[i] >= TwoSeconds

\* C11: when every clip lasts 2.0 s or more and the target span is T, the
\* finished plan has ceil(T / 2.0) segments: the first floor(T / 2.0) last
\* 2.0 s each and, when T is no multiple of 2.0, one last segment lasts the
\* remainder.
C11_SegmentCount ==
  (PlannerDone /\ AllClipsLong) =>
    LET T == total_audio_duration
        n == Len(final_clips)
    IN /\ n = (T + TwoSeconds - 1) \div TwoSeconds
       /\ \A k \in 1 .. T \div TwoSeconds :
            final_clips[k].duration = TwoSeconds
       /\ T % TwoSeconds # 0 =>
            /\ n = T \div TwoSeconds + 1
            /\ final_clips[n].duration = T % TwoSeconds

\* C11 witness: a finished plan over clips of 2.0 s or more whose span is
\* no multiple of 2.0 s, with a full segment, a remainder and a segment
\* that starts inside its clip.
C11_Witness ==
  /\ PlannerDone
  /\ AllClipsLong
  /\ total_audio_duration % TwoSeconds # 0
  /\ Len(final_clips) >= 2
  /\ \E k \in DOMAIN final_clips : final_clips[k].start > 0

C13_AudioUnreadableIsFatal ==
  (PrimaryAvailable /\ ~audio_ok) =>
    /\ "secondary" \notin Range(tiers)
    /\ "placeholder" \notin Range(tiers)
    /\ pc # "returned"

\* C14 (as claimed): no step of the loading loop and no step of the
\* planning loops (a clip that fails to load, a subclip or an fx call that
\* fails) hands the render over to the secondary tier.
C14_StageFailureTolerated ==
  [][(pc \in {"load_clips", "fixed_loop", "beat_loop"}) =>
       (pc' # "secondary" /\ "primary_raised" \notin Range(tiers'))]_vars

\* A round of the fixed-timing loop is about to run.
FixedRound ==
  /\ pc = "fixed_loop"
  /\ current_time < total_audio_duration
  /\ Len(final_clips) < MaxSegments

\* A round of the loop after the if/else is about to run.
BeatRound ==
  /\ pc = "beat_loop"
  /\ current_time < total_audio_duration
  /\ Len(final_clips) < MaxSegments

\* C15 (as claimed): in both branches, at every segment position and
\* whatever the segment before got, each of the 12 identifiers can be the
\* one the next segment gets.
C15_EveryStyleInBothBranches ==
  (FixedRound \/ BeatRound) =>
    \A style \in transition_styles :
      ENABLED ((FixedStep \/ BeatStep) /\ transition' = style)

\* C15 (amended): in the beat-driven branch each of the 12 identifiers can
\* be the one the next segment gets, at every position and whatever the
\* segment before got, and nothing else can; in the branch for fewer than
\* 2 beats every segment gets the simple fade (fadein 0.2, fadeout 0.2)
\* and no identifier is drawn.
C15_StylePerBranch ==
  /\ BeatRound =>
       \A style \in transition_styles :
         ENABLED (BeatStep /\ transition' = style)
  /\ FixedRound =>
       \A style \in transition_styles :
         (ENABLED (FixedStep /\ transition' = style)) <=> (style = "fade")
  /\ transition \in transition_styles \cup {"none"}
  /\ (fixed_count = Len(final_clips) /\ transition # "none") =>
       (transition = "fade" /\ effect = SimpleFade)

\* C15 witness: in the beat-driven branch a third segment got gentle_zoom
\* and a further round is about to run.
C15_Witness ==
  /\ BeatRound
  /\ Len(beat_times) >= 2
  /\ Len(final_clips) >= 3
  /\ transition = "gentle_zoom"

\* The transition table as the specification states it, row by row.
TableRow(style) ==
  CASE style = "fade" -> Fx(20, 20, "none", 0, 0, 0)
    [] style = "quick_fade" -> Fx(5, 5, "none", 0, 0, 0)
    [] style = "zoom_in" -> Fx(10, 10, "resize", 100, 20, 0)
    [] style = "zoom_out" -> Fx(10, 10, "resize", 120, -20, 0)
    [] style = "crossfade" -> Fx(40, 40, "none", 0, 0, 0)
    [] style = "spin_right" -> Fx(10, 10, "rotate", 0, 300, 0)
    [] style = "spin_left" -> Fx(10, 10, "rotate", 0, -300, 0)
    [] style = "scale_bounce" -> Fx(10, 10, "resize_abs", 100, 10, 50)
    [] style = "smooth_fade" -> Fx(30, 30, "none", 0, 0, 0)
    [] style = "dramatic_fade" -> Fx(10, 50, "none", 0, 0, 0)
    [] style = "zoom_blur" -> Fx(20, 20, "resize", 100, 15, 0)
    [] style = "gentle_zoom" -> Fx(15, 15, "resize", 100, 5, 0)

\* C16: the fx parameters applied to a segment are those of the table row
\* of its transition identifier and depend on nothing else, and every
\* identifier that can be drawn has exactly one branch of the dispatch
\* chain that matches it.
C16_EffectIsTableRow ==
  /\ \A style \in transition_styles :
       /\ Cardinality(Matching(style)) = 1
       /\ ApplyTransition(style) = TableRow(style)
  /\ Len(dispatch) = Cardinality(transition_styles)
  /\ transition # "none" => effect = TableRow(transition)
  /\ transition = "none" => effect = NoEffect

\* C16 witness: a segment of the beat-driven branch got dramatic_fade,
\* with fade-in 0.1 s and fade-out 0.5 s.
C16_Witness ==
  /\ pc = "beat_loop"
  /\ Len(beat_times) >= 2
  /\ transition = "dramatic_fade"
  /\ effect.fadein = 10
  /\ effect.fadeout = 50

\* C17: every video file of positive width and height comes out of the
\* normalizer 1080 wide and 1920 high, and a file that is 1080 by 1920
\* comes out with the size it went in with.
C17_NormalizedSize ==
  pc = "normalized" =>
    /\ video_w > 0 /\ video_h > 0
    /\ clip_w = TargetW
    /\ clip_h = TargetH
    /\ (video_w = TargetW /\ video_h = TargetH) =>
         (clip_w = video_w /\ clip_h = video_h)

\* C17 witness: a landscape file, 1920 by 1080, was scaled to height 1920
\* and cropped to width 1080.
C17_Witness ==
  /\ pc = "normalized"
  /\ video_w = TargetH
  /\ video_h = TargetW
  /\ TooWide(video_w, video_h)
  /\ ResizeHeight(video_w, video_h, TargetH).w > TargetW
  /\ clip_w = TargetW
  /\ clip_h = TargetH

\* simple_video_concat is over: it returned, or its exception reached the
\* controller.
ConcatOver ==
  /\ "secondary" \in Range(tiers)
  /\ \/ pc \in {"returned", "raised"}
     \/ pc = "placeholder" /\ call_site = "controller"

\* C18 (as claimed): on every exit path of simple_video_concat the
\* temporary concat list no longer exists when the call returns or raises.
C18_TempFileRemoved == ConcatOver => ~temp_file

\* C19 (as claimed): every VideoFileClip and AudioFileClip the primary
\* tier opened is released before beat_synced_reel returns or goes on to
\* the next tier.
C19_HandlesReleased == ~InPrimary => handles = 0

\* C20 (as claimed): every round of a planning loop makes current_time
\* strictly larger.
C20_TimeAdvances ==
  [][(pc \in {"fixed_loop", "beat_loop"} /\ pc' = pc
       /\ final_clips' # final_clips) =>
     current_time' > current_time]_vars

\* The number of times create_placeholder_video was called.
PlaceholderCalls ==
  Cardinality({i \in DOMAIN tiers : tiers[i] = "placeholder"})

\* C21 (as claimed): in one call of beat_synced_reel each tier is started
\* at most once; create_placeholder_video in particular is called at most
\* once.
C21_EachTierOnce ==
  /\ Cardinality({i \in DOMAIN tiers : tiers[i] = "primary"}) <= 1
  /\ Cardinality({i \in DOMAIN tiers : tiers[i] = "secondary"}) <= 1
  /\ PlaceholderCalls <= 1

\* C22: before and after every segment the planner appends, current_time
\* is at least 0 and at most the target span, and it is the sum of the
\* segments appended so far.
C22_TimeWithinSpan ==
  pc \in {"fixed_loop", "beat_loop", "assemble", "export"} =>
    /\ 0 <= current_time
    /\ current_time <= total_audio_duration
    /\ current_time = SumDurations(final_clips)

\* C22 witness: a round that cut the remainder has brought current_time
\* to a target span that is no multiple of 2.0 s.
C22_Witness ==
  /\ pc = "beat_loop"
  /\ Len(final_clips) >= 2
  /\ current_time = total_audio_duration
  /\ total_audio_duration % TwoSeconds # 0

\* A step is a round of a planning loop that appended a segment.
IsRound ==
  /\ pc \in {"fixed_loop", "beat_loop"}
  /\ pc' = pc
  /\ Len(final_clips') = Len(final_clips) + 1

\* The duration a round asks for and the duration of the clip it uses.
Requested == SegmentDuration(total_audio_duration, current_time)
ChosenClip == clips[ClipIndex(clip_idx, Len(clips)) + 1]

\* C23 (as claimed): when the chosen clip lasts at most the requested
\* duration plus 0.5 s, the segment starts at 0 and lasts as long as the
\* whole clip.
C23_ShortClipUsedWhole ==
  [][(IsRound /\ ChosenClip <= Requested + HalfSecond) =>
     LET trimmed == final_clips'[Len(final_clips')]
     IN trimmed.start = 0 /\ trimmed.duration = ChosenClip]_vars

\* C23 (amended): when the chosen clip lasts at most the requested
\* duration plus 0.5 s, the segment starts at 0 and lasts the shorter of
\* the requested duration and the clip: the whole clip when the clip is no
\* longer than the request, the requested duration when it is longer.
C23_ShortClipFromStart ==
  [][(IsRound /\ ChosenClip <= Requested + HalfSecond) =>
     LET trimmed == final_clips'[Len(final_clips')]
     IN /\ trimmed.start = 0
        /\ trimmed.duration = Min(Requested, ChosenClip)
        /\ ChosenClip <= Requested => trimmed.duration = ChosenClip
        /\ ChosenClip > Requested => trimmed.duration = Requested]_vars

\* C23 witness: a 2.0 s clip was asked for 1.5 s: the segment starts at 0
\* and lasts 1.5 s, not the whole clip.
C23_Witness ==
  /\ pc \in {"fixed_loop", "beat_loop"}
  /\ total_audio_duration = TwoSeconds - HalfSecond
  /\ clips = <<TwoSeconds>>
  /\ Len(final_clips) = 1
  /\ final_clips[1].start = 0
  /\ final_clips[1].duration = TwoSeconds - HalfSecond

\* The cuts a round can make, computed from the span, the segments cut so
\* far and the clip pool alone: no beat time enters.
CutsFrom(span, cut, pool) ==
  LET now == SumDurations(cut)
      duration == Min(TwoSeconds, span - now)
      index == Len(cut) % Len(pool)
      room == Max(0, pool[index + 1] - duration - HalfSecond)
  IN {[clip |-> index, start |-> random_start,
       duration |-> Min(duration, pool[index + 1] - random_start)] :
        random_start \in StartChoices(room)}

C26_FixedLoopAlone ==
  /\ (Len(beat_times) < 2 /\ pc \in {"beat_loop", "assemble", "export"}) =>
       /\ current_time >= total_audio_duration
       /\ Len(final_clips) = fixed_count
       /\ SumDurations(final_clips) = current_time
  /\ Len(beat_times) >= 2 => fixed_count = 0

\* C26 witness: the fixed-timing loop appended two segments and control
\* stands at the loop that follows the if/else.
C26_Witness ==
  /\ Len(beat_times) < 2
  /\ pc = "beat_loop"
  /\ fixed_count >= 2
  /\ Len(final_clips) = fixed_count

\* C25: of two renders in simple_video_concat at once, each writes, reads
\* and unlinks only the temporary list it created itself, the two never
\* hold the same file, and the list ffmpeg reads is the one its own call
\* wrote.
C25_OwnTempFileOnly ==
  /\ \A t \in touches : t.owner = t.by
  /\ \A w \in Renders :
       /\ worker_pc[w] = "write" => tmp_owner[worker_f[w]] = w
       /\ worker_pc[w] \in {"ffmpeg", "unlink"} =>
            /\ tmp_owner[worker_concat_file[w]] = w
            /\ tmp_content[worker_concat_file[w]] = w
  /\ \A v, w \in Renders :
       (v # w /\ worker_concat_file[v] # 0 /\ worker_concat_file[w] # 0) =>
         worker_concat_file[v] # worker_concat_file[w]

\* C25 witness: both renders hold a list at once, one about to run ffmpeg
\* and one about to unlink, after an earlier render has unlinked its own.
C25_Witness ==
  /\ worker_pc[1] = "ffmpeg"
  /\ worker_pc[2] = "unlink"
  /\ worker_concat_file[1] # 0
  /\ worker_concat_file[2] # 0
  /\ \E t \in touches : t.op = "unlink"

\* C27: run_full_pipeline runs the steps in the order 1, 2, 3, 4; a step
\* starts only after all steps before it returned True; no step starts
\* after a step returned False; the call returns True exactly when all
\* four steps returned True, and False exactly when one returned False.
C27_StepsInOrder ==
  /\ \A i \in DOMAIN steps : steps[i][1] = i
  /\ Len(steps) <= 4
  /\ \A i \in 1 .. Len(steps) - 1 : steps[i][2] = TRUE
  /\ \A k \in 1 .. 4 :
       p_pc = <<"step1", "step2", "step3", "step4">>[k] =>
         /\ Len(steps) = k - 1
         /\ \A i \in DOMAIN steps : steps[i][2] = TRUE
         /\ success = "none"
  /\ success = "true" <=>
       (Len(steps) = 4 /\ \A i \in DOMAIN steps : steps[i][2] = TRUE)
  /\ success = "false" <=>
       (steps # <<>> /\ steps[Len(steps)][2] = FALSE)
  /\ p_pc = "returned" => success # "none"

\* C27 witness: a run ended by step 3 returning False after steps 1 and 2
\* returned True, following a run that completed all four steps.
C27_Witness ==
  /\ p_pc = "returned"
  /\ run_no >= 2
  /\ steps = <<<<1, TRUE>>, <<2, TRUE>>, <<3, FALSE>>>>
  /\ success = "false"
  /\ subs_size >= 0

\* C28 (as claimed): step3_edit_video returned True in this run only if
\* this run's beat_synced_reel call wrote final_reel_transitions.mp4.
C28_ResultIsOfThisRun ==
  (Len(steps) >= 3 /\ steps[3][2] = TRUE) => render = "wrote"

\* The step is a call of ReelPipeline.cleanup.
IsCleanup == p_pc = "returned" /\ p_pc' = "idle" /\ front = "cli"

C29_OneWorkerAlive == Cardinality(alive) <= 1
==========================================================================
